---- MODULE Spec2Model ----
(***************************************************************************)
(* A model of fetch-dd-resources.py: one sequential run of main(), which   *)
(* loads credentials, parses the requested resource list and runs one      *)
(* fetcher per requested resource type.  Every remote API call is a step   *)
(* of its own whose outcome (success, failure, how many items the remote   *)
(* holds) is chosen nondeterministically.  Text (names, slugs, file names, *)
(* the resource argument) is modelled as sequences of one-character        *)
(* strings so that strip/lower/split/slugify are computed, not assumed.    *)
(***************************************************************************)
EXTENDS Integers, Sequences, FiniteSets, TLC

(* ---------------------------- bounds ---------------------------------- *)
\* most items a non-paginated run of the remote holds per resource type
MaxItems == 2
\* most items the remote holds in the pagination specification
MaxPagedItems == 201
\* most monitors the remote holds in the monitors-and-policies specification
MaxMonitors == 1001

(* ------------------------- string literals ---------------------------- *)
S_item == <<"i", "t", "e", "m">>
S_unknown == <<"u", "n", "k", "n", "o", "w", "n">>
S_json == <<".", "j", "s", "o", "n">>
S_us == <<"_">>
S_colon == <<":">>
S_monitor == <<"m", "o", "n", "i", "t", "o", "r">>
S_monitor_dash == <<"m", "o", "n", "i", "t", "o", "r", "-">>
S_None == <<"N", "o", "n", "e">>
S_dashboard == <<"d", "a", "s", "h", "b", "o", "a", "r", "d">>
S_notebook == <<"n", "o", "t", "e", "b", "o", "o", "k">>
S_role == <<"r", "o", "l", "e">>
S_user == <<"u", "s", "e", "r">>
S_team == <<"t", "e", "a", "m">>
S_slo == <<"s", "l", "o">>
S_entity == <<"e", "n", "t", "i", "t", "y">>
S_oncall_rr == <<"o", "n", "c", "a", "l", "l", "-", "r", "r">>
S_routing_rules == <<" ", "r", "o", "u", "t", "i", "n", "g", " ", "r", "u", "l", "e", "s">>
S_team_routing_rules == <<"t", "e", "a", "m", "-", "r", "o", "u", "t", "i", "n", "g", "-", "r", "u", "l", "e", "s", "_">>
S_team_oncall_users == <<"t", "e", "a", "m", "-", "o", "n", "c", "a", "l", "l", "-", "u", "s", "e", "r", "s", "_">>
S_all_host_tags == <<"a", "l", "l", "_", "h", "o", "s", "t", "_", "t", "a", "g", "s", "_">>
S_rid_prefix == <<"o", "n", "-", "c", "a", "l", "l", "-", "t", "e", "a", "m", "-", "r", "o", "u", "t", "i", "n", "g", "-", "r", "u", "l", "e", "s", ":">>
S_base == <<"d", "a", "t", "a", "d", "o", "g", "-", "a", "p", "i">>
S_us1 == <<"u", "s", "1">>
S_org == <<"_", "o", "r", "g", "_">>
S_Monitors == <<"M", "o", "n", "i", "t", "o", "r", "s">>
S_dotenv == <<".", "e", "n", "v">>

\* RESOURCE_ALIASES as a list of <<key text, canonical type>> pairs
RESOURCE_ALIASES ==
  << <<<<"d", "a", "s", "h", "b", "o", "a", "r", "d", "s">>, "dashboards">>,
     <<<<"d", "a", "s", "h", "b", "o", "a", "r", "d">>, "dashboards">>,
     <<<<"m", "o", "n", "i", "t", "o", "r", "s">>, "monitors">>,
     <<<<"m", "o", "n", "i", "t", "o", "r">>, "monitors">>,
     <<<<"n", "o", "t", "e", "b", "o", "o", "k", "s">>, "notebooks">>,
     <<<<"n", "o", "t", "e", "b", "o", "o", "k">>, "notebooks">>,
     <<<<"o", "n", " ", "c", "a", "l", "l">>, "on_call">>,
     <<<<"o", "n", "c", "a", "l", "l">>, "on_call">>,
     <<<<"r", "e", "s", "t", "r", "i", "c", "t", "i", "o", "n", " ", "p", "o", "l", "i", "c", "i", "e", "s">>, "restriction_policies">>,
     <<<<"r", "e", "s", "t", "r", "i", "c", "t", "i", "o", "n", "_", "p", "o", "l", "i", "c", "i", "e", "s">>, "restriction_policies">>,
     <<<<"r", "o", "l", "e", "s">>, "roles">>,
     <<<<"r", "o", "l", "e">>, "roles">>,
     <<<<"t", "a", "g", "s">>, "tags">>,
     <<<<"t", "e", "a", "m", "s">>, "teams">>,
     <<<<"t", "e", "a", "m">>, "teams">>,
     <<<<"u", "s", "e", "r", "s">>, "users">>,
     <<<<"u", "s", "e", "r">>, "users">>,
     <<<<"s", "l", "o", "s">>, "slos">>,
     <<<<"s", "l", "o">>, "slos">>,
     <<<<"s", "e", "r", "v", "i", "c", "e", " ", "l", "e", "v", "e", "l", " ", "o", "b", "j", "e", "c", "t", "i", "v", "e", "s">>, "slos">>,
     <<<<"s", "o", "f", "t", "w", "a", "r", "e", " ", "c", "a", "t", "a", "l", "o", "g">>, "software_catalog">>,
     <<<<"s", "o", "f", "t", "w", "a", "r", "e", "_", "c", "a", "t", "a", "l", "o", "g">>, "software_catalog">>,
     <<<<"s", "e", "r", "v", "i", "c", "e", " ", "c", "a", "t", "a", "l", "o", "g">>, "software_catalog">> >>

(* ----------------------------- text ----------------------------------- *)
None == <<>>          \* a missing / falsy text (None or "")

Whitespace == {" "}
LowerAlnum == {"a", "b", "c", "d", "e", "f", "g", "h", "i", "j", "k", "l", "m",
               "n", "o", "p", "q", "r", "s", "t", "u", "v", "w", "x", "y", "z",
               "0", "1", "2", "3", "4", "5", "6", "7", "8", "9"}

\* str.lower() on one character, for the upper-case letters the inputs use
LowerChar(c) ==
  CASE c = "A" -> "a" [] c = "B" -> "b" [] c = "C" -> "c" [] c = "D" -> "d"
    [] c = "M" -> "m" [] c = "N" -> "n" [] c = "O" -> "o" [] c = "P" -> "p"
    [] c = "R" -> "r" [] c = "S" -> "s" [] c = "T" -> "t" [] c = "U" -> "u"
    [] OTHER -> c

Lower(s) == [k \in 1..Len(s) |-> LowerChar(s[k])]

\* str.strip(cs): what lies between the first and the last character not in cs
Strip(s, cs) ==
  LET keep == {k \in 1..Len(s) : s[k] \notin cs}
  IN IF keep = {} THEN <<>>
     ELSE SubSeq(s, CHOOSE k \in keep : \A j \in keep : k <= j,
                    CHOOSE k \in keep : \A j \in keep : k >= j)

\* re.sub(r"[^a-z0-9]+", "-", text): every maximal run of other characters
\* becomes one "-"
RECURSIVE SubNonAlnum(_, _)
SubNonAlnum(s, inRun) ==
  IF s = <<>> THEN <<>>
  ELSE IF Head(s) \in LowerAlnum THEN <<Head(s)>> \o SubNonAlnum(Tail(s), FALSE)
  ELSE IF inRun THEN SubNonAlnum(Tail(s), TRUE)
  ELSE <<"-">> \o SubNonAlnum(Tail(s), TRUE)

\* re.sub(r"-+", "-", text)
RECURSIVE CollapseDashes(_, _)
CollapseDashes(s, inRun) ==
  IF s = <<>> THEN <<>>
  ELSE IF Head(s) # "-" THEN <<Head(s)>> \o CollapseDashes(Tail(s), FALSE)
  ELSE IF inRun THEN CollapseDashes(Tail(s), TRUE)
  ELSE <<"-">> \o CollapseDashes(Tail(s), TRUE)

\* "return text" in place of "return text or fallback"
SlugOrFallback_NoFallback(slug, fallback) == slug

SlugOrFallback(slug, fallback) == IF slug = <<>> THEN fallback ELSE slug

_slugify(text, fallback) ==
  IF text = None THEN fallback
  ELSE SlugOrFallback(
         Strip(CollapseDashes(SubNonAlnum(Lower(Strip(text, Whitespace)), FALSE), FALSE), {"-"}),
         fallback)

DigitChar == <<"0", "1", "2", "3", "4", "5", "6", "7", "8", "9">>

\* str(n) for a natural number
RECURSIVE Str(_)
Str(n) == IF n < 10 THEN <<DigitChar[n + 1]>> ELSE Str(n \div 10) \o <<DigitChar[(n % 10) + 1]>>

\* str(prefix_id) if prefix_id is not None else "unknown"
Sid(prefix_id) == IF prefix_id = None THEN S_unknown ELSE prefix_id

_fname_with_id_name(prefix_id, name, default_prefix) ==
  Sid(prefix_id) \o S_us \o _slugify(name, default_prefix) \o S_json

\* x or y
Or(x, y) == IF x = None THEN y ELSE x

\* str.split(sep): the pieces between consecutive separators
Split(s, sep) ==
  LET at == SelectSeq([k \in 1..Len(s) |-> k], LAMBDA k : s[k] = sep)
      cuts == <<0>> \o at \o <<Len(s) + 1>>
  IN [k \in 1..(Len(cuts) - 1) |-> SubSeq(s, cuts[k] + 1, cuts[k + 1] - 1)]

\* RESOURCE_ALIASES.get(key): the canonical type, or "" (None) when absent
AliasGet(key) ==
  LET hits == {k \in 1..Len(RESOURCE_ALIASES) : RESOURCE_ALIASES[k][1] = key}
  IN IF hits = {} THEN "" ELSE RESOURCE_ALIASES[CHOOSE k \in hits : TRUE][2]

\* "return wanted": no dedupe
Dedupe_KeepAll(s) == s

\* list(dict.fromkeys(wanted)): drop later duplicates, keep order
Dedupe(s) ==
  LET first == {k \in 1..Len(s) : \A j \in 1..(k - 1) : s[j] # s[k]}
  IN [n \in 1..Cardinality(first) |->
        s[CHOOSE k \in first : Cardinality({j \in first : j < k}) = n - 1]]

\* the loop of parse_resources_arg: the canonical types of the recognised
\* tokens, in order
AliasKeys(raws) ==
  SelectSeq([k \in 1..Len(raws) |-> AliasGet(Lower(Strip(raws[k], Whitespace)))],
            LAMBDA key : key # "")

parse_resources_arg(arg) == Dedupe(AliasKeys(Split(arg, ",")))

(* --------------------------- the inputs -------------------------------- *)
\* raw tokens the resource argument is built from: every canonical type by
\* one of its aliases, with padding and case variants, and the name
\* "on_call" (which RESOURCE_ALIASES does not hold)
RawTokens ==
  { <<"M", "o", "n", "i", "t", "o", "r", "s">>,
    <<" ", "T", "e", "a", "m", "s", " ">>,
    <<"O", "n", " ", "C", "a", "l", "l">>,
    <<"d", "a", "s", "h", "b", "o", "a", "r", "d", "s">>,
    <<"n", "o", "t", "e", "b", "o", "o", "k", "s">>,
    <<"r", "e", "s", "t", "r", "i", "c", "t", "i", "o", "n", " ", "p", "o", "l", "i", "c", "i", "e", "s">>,
    <<"r", "o", "l", "e", "s">>,
    <<"t", "a", "g", "s">>,
    <<"u", "s", "e", "r", "s">>,
    <<"s", "l", "o">>,
    <<"s", "o", "f", "t", "w", "a", "r", "e", " ", "c", "a", "t", "a", "l", "o", "g">>,
    <<"o", "n", "_", "c", "a", "l", "l">> }

\* the tokens of the three-token arguments: an alias pair of one type, a
\* second and third type, and the empty token
OrderTokens ==
  { <<"M", "o", "n", "i", "t", "o", "r", "s">>,
    <<"m", "o", "n", "i", "t", "o", "r">>,
    <<" ", "T", "e", "a", "m", "s", " ">>,
    <<"t", "a", "g", "s">>,
    <<>> }

\* org labels: the second one is stripped and lower-cased differently by
\* load_env_for and by main
OrgLabels == { <<"d", "e", "v">>, <<"P", "r", "o", "d", " ">> }
DefaultOrg == <<"d", "e", "v">>

RECURSIVE Join(_)
Join(ts) ==
  IF ts = <<>> THEN <<>>
  ELSE IF Len(ts) = 1 THEN ts[1]
  ELSE ts[1] \o <<",">> \o Join(Tail(ts))

\* restriction_policies is paired, before and after, with these tokens only:
\* its fetcher lists four resource types and the teams and looks every
\* resource up, with every outcome
RpToken == <<"r", "e", "s", "t", "r", "i", "c", "t", "i", "o", "n", " ", "p", "o", "l", "i", "c", "i", "e", "s">>
RpCompanions == { <<"t", "a", "g", "s">>, <<" ", "T", "e", "a", "m", "s", " ">> }

\* the resource argument holds one or two tokens, or three of OrderTokens
TokenLists ==
  {<<a>> : a \in RawTokens} \cup {<<a, b>> : a, b \in RawTokens \ {RpToken}}
    \cup {<<RpToken, b>> : b \in RpCompanions} \cup {<<b, RpToken>> : b \in RpCompanions}
    \cup {<<a, b, c>> : a, b, c \in OrderTokens}
ResourceArgs == {Join(ts) : ts \in TokenLists}

(* --------------------------- the remote -------------------------------- *)
\* The remote holds, for every listable resource type alike, one run of
\* consecutive items of a catalogue, <<off, n, more>>: the n items after the
\* first off, and of monitors the `more` items that follow them as well.
\* Item ids are missing on the even items.  A list call that succeeds
\* returns that list; any call may fail instead.
Lists == {<<0, 0, 0>>} \cup {<<off, n, 0>> : off \in 0..1, n \in 1..MaxItems}

CatalogueNames == << <<>>, <<" ", "A", "b", " ", "C", "-", "-", "d", " ">>, <<" ", "!", " ">> >>
ItemId(i) == IF i % 2 = 0 THEN None ELSE Str(i)
ItemName(i) == CatalogueNames[(i % 3) + 1]
ItemEmail(i) == IF i % 4 = 3 THEN <<"u", "@", "x">> ELSE None
Item(i) == [ix |-> i, id |-> ItemId(i), name |-> ItemName(i), email |-> ItemEmail(i)]
RemoteList(l) == [i \in 1..l[2] |-> Item(l[1] + i)]
\* the monitors the remote holds
MonitorList(l) == [i \in 1..(l[2] + l[3]) |-> Item(l[1] + i)]

Min(a, b) == IF a < b THEN a ELSE b

\* the p-th page (from 0) of page_size items of a list
PageOf(list, p, size) == SubSeq(list, p * size + 1, Min(Len(list), (p + 1) * size))

(* ---------------------------- the state -------------------------------- *)
VARIABLES
  argv,          \* sys.argv[1:]: <<>>, <<org_label>> or <<org_label, resources_arg>>
  env,           \* [file, api, app]: the env file exists; DD_API_KEY / DD_APP_KEY set after loading it
  remote,        \* <<off, n, more>>: the list the remote holds of every type
  pc,            \* where the run is
  root_dir,      \* the output root, None until main computes it
  root_made,     \* _ensure_dir(root_dir) has run
  wanted,        \* parse_resources_arg(resources_arg)
  key_ix,        \* index in wanted of the next key of main's for loop
  cur,           \* the key main is running a fetcher for ("" before the loop)
  teams_cache,   \* main's teams_cache
  caller,        \* who called fetch_teams: "main", "on_call", "restriction_policies"
  page,          \* page / page_number of the running paginated fetcher
  total,         \* total (total_rr in fetch_on_call) of the running fetcher
  total_users,   \* total_users of fetch_on_call
  out,           \* out of fetch_teams
  items,         \* the list the running fetcher iterates over
  ix,            \* index in items of the next element
  resources,     \* resources of fetch_restriction_policies
  calls,         \* history: the remote calls made, in order
  writes,        \* history: the files written, in order
  log,           \* history: the lines printed (other than "Wrote: ...")
  ran            \* history: the types whose fetcher main has called, in order

vars == <<argv, env, remote, pc, root_dir, root_made, wanted, key_ix, cur,
          teams_cache, caller, page, total, total_users, out, items, ix,
          resources, calls, writes, log, ran>>

inputs == <<argv, env, remote>>
locals == <<page, total, total_users, out, items, ix, resources>>

Call(verb, what, arg) == [verb |-> verb, what |-> what, arg |-> arg]
Line(msg, args) == [msg |-> msg, args |-> args]
\* _write_json(base_dir, subdir, fname, obj); by: the key main is running,
\* id / item: the id and catalogue index of the object written
Write(subdir, fname, id, item) ==
  [subdir |-> subdir, fname |-> fname, id |-> id, item |-> item, by |-> cur]

InitLocals ==
  /\ page = 0 /\ total = 0 /\ total_users = 0 /\ out = <<>>
  /\ items = <<>> /\ ix = 1 /\ resources = <<>>

InitRun ==
  /\ pc = "main"
  /\ root_dir = None /\ root_made = FALSE
  /\ wanted = <<>> /\ key_ix = 1 /\ cur = ""
  /\ teams_cache = <<>> /\ caller = ""
  /\ InitLocals
  /\ calls = <<>> /\ writes = <<>> /\ log = <<>> /\ ran = <<>>

Init ==
  /\ argv \in {<<>>} \cup {<<o>> : o \in OrgLabels}
                     \cup {<<DefaultOrg, a>> : a \in ResourceArgs}
  /\ env \in [file : BOOLEAN, api : BOOLEAN, app : BOOLEAN]
  /\ remote \in Lists
  /\ InitRun

(* ----------------------------- main ------------------------------------ *)
Terminal == {"exit_usage", "exit_env", "exit_nothing", "crashed", "done"}

\* the process exit status of a finished run
ExitCode(p) ==
  CASE p = "exit_usage" -> 2
    [] p = "exit_env" -> 1
    [] p = "crashed" -> 1
    [] OTHER -> 0

\* <base>/<site_label>_org_<org part>
OrgDir(orgpart) == S_base \o <<"/">> \o S_us1 \o S_org \o orgpart

\* a key check that forgets DD_APP_KEY
KeysMissing_ApiOnly == ~env.api

\* not os.getenv("DD_API_KEY") or not os.getenv("DD_APP_KEY")
KeysMissing == ~env.api \/ ~env.app

\* main() from its first line up to the with block: usage check, load_env_for,
\* the key check, _ensure_dir(root_dir), parse_resources_arg
main ==
  /\ pc = "main"
  /\ LET org_label == argv[1]
         resources_arg == IF Len(argv) >= 2 THEN argv[2] ELSE S_Monitors
         w == parse_resources_arg(resources_arg)
     IN IF Len(argv) < 1
        THEN /\ pc' = "exit_usage"
             /\ log' = Append(log, Line("Usage", <<>>))
             /\ UNCHANGED <<root_dir, root_made, wanted, caller>>
        ELSE IF ~env.file
        THEN /\ pc' = "exit_env"
             /\ log' = Append(log, Line("Env file not found",
                         <<OrgDir(Lower(Strip(org_label, Whitespace))) \o <<"/">> \o S_dotenv>>))
             /\ UNCHANGED <<root_dir, root_made, wanted, caller>>
        ELSE IF KeysMissing
        THEN /\ pc' = "exit_env"
             /\ log' = Append(log, Line("Please set DD_API_KEY and DD_APP_KEY", <<>>))
             /\ UNCHANGED <<root_dir, root_made, wanted, caller>>
        ELSE /\ root_dir' = OrgDir(Lower(org_label))
             /\ root_made' = TRUE
             /\ wanted' = w
             /\ IF w = <<>>
                THEN /\ pc' = "exit_nothing"
                     /\ log' = Append(log, Line("No valid resources requested", <<>>))
                     /\ caller' = caller
                ELSE /\ log' = Append(log, Line("Base", <<>>))
                     /\ IF \E k \in 1..Len(w) : w[k] \in {"teams", "on_call"}
                        THEN pc' = "fetch_teams" /\ caller' = "main"
                        ELSE pc' = "dispatch" /\ caller' = caller
  /\ cur' = IF pc' = "fetch_teams" THEN "teams" ELSE cur
  /\ ran' = IF pc' = "fetch_teams" THEN <<"teams">> ELSE ran
  /\ UNCHANGED <<inputs, key_ix, teams_cache, locals, calls, writes>>

(* ------------------------- shared steps -------------------------------- *)
page_size == 100

\* "<=" in place of "<": the loop ends after any page
LastPage_AlsoFull(batch) == Len(batch) <= page_size

\* the loop ends only after an empty page
LastPage_OnlyEmpty(batch) == Len(batch) = 0

\* len(items) < page_size: the loop of a paginated fetcher ends
LastPage(batch) == Len(batch) < page_size

\* an exception nothing catches leaves main(): the run ends with a traceback
Crash == pc' = "crashed"

\* the files one batch of items is written to
WriteAll(batch, subdir, Fname(_)) ==
  [k \in 1..Len(batch) |-> Write(subdir, Fname(batch[k]), batch[k].id, batch[k].ix)]

\* reset of the locals every fetcher starts from
Enter(p) ==
  /\ pc' = p
  /\ page' = 0 /\ total' = 0 /\ total_users' = 0 /\ out' = <<>>
  /\ items' = <<>> /\ ix' = 1

FETCHERS == {"dashboards", "monitors", "notebooks", "on_call",
             "restriction_policies", "roles", "tags", "teams", "users",
             "slos", "software_catalog"}

\* one turn of main's "for key in wanted" loop, up to the call of the fetcher
dispatch ==
  /\ pc = "dispatch"
  /\ IF key_ix > Len(wanted)
     THEN /\ pc' = "done"
          /\ log' = Append(log, Line("Done.", <<>>))
          /\ UNCHANGED <<key_ix, cur, caller, locals, ran>>
     ELSE LET key == wanted[key_ix] IN
          /\ key_ix' = key_ix + 1
          /\ cur' = key
          /\ ran' = IF key # "teams" /\ key \in FETCHERS THEN Append(ran, key) ELSE ran
          /\ IF key = "teams"
             THEN UNCHANGED <<pc, caller, locals, log>>
             ELSE IF key = "on_call"
             THEN \* teams = teams_cache or fetch_teams(api_client, base_dir)
                  /\ IF teams_cache # <<>>
                     THEN /\ pc' = "on_call_routing_rules"
                          /\ page' = 0 /\ total' = 0 /\ total_users' = 0 /\ out' = <<>>
                          /\ items' = teams_cache /\ ix' = 1
                          /\ caller' = caller
                     ELSE /\ Enter("fetch_teams")
                          /\ caller' = "on_call"
                  /\ UNCHANGED <<resources, log>>
             ELSE IF key \notin FETCHERS
             THEN /\ log' = Append(log, Line("Unknown resource", <<>>))
                  /\ UNCHANGED <<pc, caller, locals>>
             ELSE /\ Enter(key)
                  /\ resources' = <<>>
                  /\ UNCHANGED <<caller, log>>
  /\ UNCHANGED <<inputs, root_dir, root_made, wanted, teams_cache, calls, writes>>

(* --------------------- the paginated fetchers -------------------------- *)
MonitorFname(m) ==
  _fname_with_id_name(m.id,
                      Or(m.name, S_monitor_dash \o (IF m.id = None THEN S_None ELSE m.id)),
                      S_monitor)

fetch_monitors ==
  /\ pc = "monitors"
  /\ calls' = Append(calls, Call("list", "monitors", Str(page)))
  /\ \/ /\ Crash
        /\ UNCHANGED <<page, total, writes, log>>
     \/ LET l == remote IN
          LET batch == PageOf(MonitorList(l), page, page_size) IN
          /\ writes' = writes \o WriteAll(batch, "monitors", MonitorFname)
          /\ total' = total + Len(batch)
          /\ IF LastPage(batch)
             THEN /\ pc' = "dispatch"
                  /\ log' = Append(log, Line("Monitors exported", <<Str(total')>>))
                  /\ page' = page
             ELSE /\ page' = page + 1
                  /\ UNCHANGED <<pc, log>>
  /\ UNCHANGED <<inputs, root_dir, root_made, wanted, ran, key_ix, cur, teams_cache,
                 caller, total_users, out, items, ix, resources>>

RoleFname(r) == _fname_with_id_name(r.id, r.name, S_role)

fetch_roles ==
  /\ pc = "roles"
  /\ calls' = Append(calls, Call("list", "roles", Str(page)))
  /\ \/ /\ Crash
        /\ UNCHANGED <<page, total, writes, log>>
     \/ LET l == remote IN
          LET data == PageOf(RemoteList(l), page, page_size) IN
          /\ writes' = writes \o WriteAll(data, "roles", RoleFname)
          /\ total' = total + Len(data)
          /\ IF LastPage(data)
             THEN /\ pc' = "dispatch"
                  /\ log' = Append(log, Line("Roles exported", <<Str(total')>>))
                  /\ page' = page
             ELSE /\ page' = page + 1
                  /\ UNCHANGED <<pc, log>>
  /\ UNCHANGED <<inputs, root_dir, root_made, wanted, ran, key_ix, cur, teams_cache,
                 caller, total_users, out, items, ix, resources>>

UserFname(u) == _fname_with_id_name(u.id, Or(Or(u.name, u.email), S_user), S_user)

fetch_users ==
  /\ pc = "users"
  /\ calls' = Append(calls, Call("list", "users", Str(page)))
  /\ \/ /\ Crash
        /\ UNCHANGED <<page, total, writes, log>>
     \/ LET l == remote IN
          LET data == PageOf(RemoteList(l), page, page_size) IN
          /\ writes' = writes \o WriteAll(data, "users", UserFname)
          /\ total' = total + Len(data)
          /\ IF LastPage(data)
             THEN /\ pc' = "dispatch"
                  /\ log' = Append(log, Line("Users exported", <<Str(total')>>))
                  /\ page' = page
             ELSE /\ page' = page + 1
                  /\ UNCHANGED <<pc, log>>
  /\ UNCHANGED <<inputs, root_dir, root_made, wanted, ran, key_ix, cur, teams_cache,
                 caller, total_users, out, items, ix, resources>>

TeamFname(t) == _fname_with_id_name(t.id, t.name, S_team)

\* the (team_id, team_name) pairs fetch_teams appends for one page
RECURSIVE TeamPairs(_)
TeamPairs(data) ==
  IF data = <<>> THEN <<>>
  ELSE (IF Head(data).id # None
        THEN << [id |-> Head(data).id, name |-> Or(Head(data).name, S_team)] >>
        ELSE <<>>) \o TeamPairs(Tail(data))

\* fetch_teams returns: to main (teams_cache), to fetch_on_call (teams) or
\* to fetch_restriction_policies (teams)
TeamsReturn(result) ==
  CASE caller = "main" ->
         /\ teams_cache' = result
         /\ pc' = "dispatch"
         /\ UNCHANGED <<items, ix>>
    [] caller = "on_call" ->
         /\ items' = result /\ ix' = 1
         /\ pc' = "on_call_routing_rules"
         /\ UNCHANGED teams_cache
    [] OTHER ->
         /\ items' = result /\ ix' = 1
         /\ pc' = "rp_team"
         /\ UNCHANGED teams_cache

\* an exception in fetch_teams: caught by the try of fetch_restriction_policies
\* around its team loop, uncaught anywhere else
TeamsRaise ==
  IF caller = "restriction_policies" THEN pc' = "rp_lookup" ELSE Crash

fetch_teams ==
  /\ pc = "fetch_teams"
  /\ calls' = Append(calls, Call("list", "teams", Str(page)))
  /\ \/ /\ TeamsRaise
        /\ UNCHANGED <<page, out, writes, log, teams_cache, items>>
        /\ total' = IF caller = "restriction_policies" THEN 0 ELSE total
        /\ ix' = IF caller = "restriction_policies" THEN 1 ELSE ix
     \/ LET l == remote IN
          LET data == PageOf(RemoteList(l), page, page_size) IN
          /\ writes' = writes \o WriteAll(data, "teams", TeamFname)
          /\ out' = out \o TeamPairs(data)
          /\ IF LastPage(data)
             THEN /\ log' = Append(log, Line("Teams exported", <<Str(total + Len(data))>>))
                  /\ TeamsReturn(out')
                  /\ total' = 0
                  /\ page' = page
             ELSE /\ page' = page + 1
                  /\ total' = total + Len(data)
                  /\ UNCHANGED <<pc, log, teams_cache, items, ix>>
  /\ UNCHANGED <<inputs, root_dir, root_made, wanted, ran, key_ix, cur, caller,
                 total_users, resources>>

(* ------------------- dashboards and notebooks -------------------------- *)
\* rest of the frame of a step that touches only pc, calls, writes, log and
\* the loop variables named in each action
Frame == UNCHANGED <<inputs, root_dir, root_made, wanted, ran, key_ix, cur,
                     teams_cache, caller, page, out>>

fetch_dashboards ==
  /\ pc = "dashboards"
  /\ calls' = Append(calls, Call("list", "dashboards", None))
  /\ \/ /\ Crash
        /\ UNCHANGED <<items>>
     \/ LET l == remote IN
          /\ items' = RemoteList(l)
          /\ pc' = "get_dashboard"
  /\ Frame
  /\ UNCHANGED <<total, total_users, ix, resources, writes, log>>

DashboardFname(d) == _fname_with_id_name(d.id, d.name, S_dashboard)

\* one turn of the "for d in dashboards" loop, or its end
get_dashboard ==
  /\ pc = "get_dashboard"
  /\ IF ix > Len(items)
     THEN /\ pc' = "dispatch"
          /\ log' = Append(log, Line("Dashboards exported", <<Str(total)>>))
          /\ UNCHANGED <<ix, total, calls, writes>>
     ELSE LET d == items[ix] IN
          IF d.id = None
          THEN /\ ix' = ix + 1
               /\ UNCHANGED <<pc, total, calls, writes, log>>
          ELSE /\ calls' = Append(calls, Call("get", "dashboard", d.id))
               /\ \/ /\ Crash
                     /\ UNCHANGED <<ix, total, writes, log>>
                  \/ /\ writes' = Append(writes, Write("dashboards", DashboardFname(d), d.id, d.ix))
                     /\ total' = total + 1
                     /\ ix' = ix + 1
                     /\ UNCHANGED <<pc, log>>
  /\ Frame
  /\ UNCHANGED <<total_users, items, resources>>

fetch_notebooks ==
  /\ pc = "notebooks"
  /\ calls' = Append(calls, Call("list", "notebooks", None))
  /\ \/ /\ Crash
        /\ UNCHANGED <<items>>
     \/ \* TypeError: the call is made once more
        /\ pc' = "notebooks_retry"
        /\ UNCHANGED <<items>>
     \/ LET l == remote IN
          /\ items' = RemoteList(l)
          /\ pc' = "get_notebook"
  /\ Frame
  /\ UNCHANGED <<total, total_users, ix, resources, writes, log>>

\* the except TypeError branch of fetch_notebooks
fetch_notebooks_retry ==
  /\ pc = "notebooks_retry"
  /\ calls' = Append(calls, Call("list", "notebooks", None))
  /\ \/ /\ Crash
        /\ UNCHANGED <<items>>
     \/ LET l == remote IN
          /\ items' = RemoteList(l)
          /\ pc' = "get_notebook"
  /\ Frame
  /\ UNCHANGED <<total, total_users, ix, resources, writes, log>>

NotebookFname(nb) == _fname_with_id_name(nb.id, nb.name, S_notebook)

get_notebook ==
  /\ pc = "get_notebook"
  /\ IF ix > Len(items)
     THEN /\ pc' = "dispatch"
          /\ log' = Append(log, Line("Notebooks exported", <<Str(total)>>))
          /\ UNCHANGED <<ix, total, calls, writes>>
     ELSE LET item == items[ix] IN
          IF item.id = None
          THEN /\ ix' = ix + 1
               /\ UNCHANGED <<pc, total, calls, writes, log>>
          ELSE /\ calls' = Append(calls, Call("get", "notebook", item.id))
               /\ \/ /\ Crash
                     /\ UNCHANGED <<ix, total, writes, log>>
                  \/ /\ writes' = Append(writes, Write("notebooks", NotebookFname(item), item.id, item.ix))
                     /\ total' = total + 1
                     /\ ix' = ix + 1
                     /\ UNCHANGED <<pc, log>>
  /\ Frame
  /\ UNCHANGED <<total_users, items, resources>>

(* ----------------------------- on call --------------------------------- *)
RoutingRulesFname(team) ==
  S_team_routing_rules \o team.id \o S_us \o _slugify(team.name, S_team) \o S_json

OncallUsersFname(team) ==
  S_team_oncall_users \o team.id \o S_us \o _slugify(team.name, S_team) \o S_json

\* first half of one turn of the "for team_id, team_name in teams" loop of
\* fetch_on_call, or the end of the loop
on_call_routing_rules ==
  /\ pc = "on_call_routing_rules"
  /\ IF ix > Len(items)
     THEN /\ pc' = "dispatch"
          /\ log' = Append(log, Line("On-Call exports", <<Str(total), Str(total_users)>>))
          /\ UNCHANGED <<total, calls, writes>>
     ELSE LET team == items[ix] IN
          /\ calls' = Append(calls, Call("get", "on_call_team_routing_rules", team.id))
          /\ pc' = "on_call_users"
          /\ \/ /\ writes' = Append(writes, Write("on_call", RoutingRulesFname(team), team.id, 0))
                /\ total' = total + 1
                /\ log' = log
             \/ /\ log' = Append(log, Line("On-Call routing rules failed for team", <<team.id>>))
                /\ UNCHANGED <<total, writes>>
  /\ Frame
  /\ UNCHANGED <<total_users, items, ix, resources>>

\* second half of the turn
on_call_users ==
  /\ pc = "on_call_users"
  /\ LET team == items[ix] IN
     /\ calls' = Append(calls, Call("get", "team_on_call_users", team.id))
     /\ pc' = "on_call_routing_rules"
     /\ ix' = ix + 1
     /\ \/ /\ writes' = Append(writes, Write("on_call", OncallUsersFname(team), team.id, 0))
           /\ total_users' = total_users + 1
           /\ log' = log
        \/ /\ log' = Append(log, Line("On-Call users failed for team", <<team.id>>))
           /\ UNCHANGED <<total_users, writes>>
  /\ Frame
  /\ UNCHANGED <<total, items, resources>>

(* --------------------- tags, slos, software catalog -------------------- *)
\* time.strftime("%Y%m%d-%H%M%S") at import
TIMESTAMP == <<"2", "0", "2", "4", "0", "1", "0", "2", "-", "0", "3", "0", "4", "0", "5">>

fetch_tags ==
  /\ pc = "tags"
  /\ calls' = Append(calls, Call("list", "host_tags", None))
  /\ \/ /\ Crash
        /\ UNCHANGED <<writes, log>>
     \/ /\ writes' = Append(writes, Write("tags", S_all_host_tags \o TIMESTAMP \o S_json, None, 0))
        /\ log' = Append(log, Line("Tags exported", <<>>))
        /\ pc' = "dispatch"
  /\ Frame
  /\ UNCHANGED <<total, total_users, items, ix, resources>>

SloFname(slo) == _fname_with_id_name(slo.id, Or(slo.name, S_slo), S_slo)

fetch_slos ==
  /\ pc = "slos"
  /\ calls' = Append(calls, Call("search", "slo", None))
  /\ \/ /\ Crash
        /\ UNCHANGED <<total, writes, log>>
     \/ \* AttributeError: fall back to list_slos
        /\ pc' = "slos_fallback"
        /\ UNCHANGED <<total, writes, log>>
     \/ LET l == remote IN
          /\ writes' = writes \o WriteAll(RemoteList(l), "slos", SloFname)
          /\ total' = l[2]
          /\ log' = Append(log, Line("SLOs exported", <<Str(l[2])>>))
          /\ pc' = "dispatch"
  /\ Frame
  /\ UNCHANGED <<total_users, items, ix, resources>>

\* the except AttributeError branch of fetch_slos
fetch_slos_fallback ==
  /\ pc = "slos_fallback"
  /\ calls' = Append(calls, Call("list", "slos", None))
  /\ pc' = "dispatch"
  /\ \/ \* except Exception: items = []
        /\ log' = Append(log, Line("SLOs exported", <<Str(0)>>))
        /\ UNCHANGED <<total, writes>>
     \/ LET l == remote IN
          /\ writes' = writes \o WriteAll(RemoteList(l), "slos", SloFname)
          /\ total' = l[2]
          /\ log' = Append(log, Line("SLOs exported", <<Str(l[2])>>))
  /\ Frame
  /\ UNCHANGED <<total_users, items, ix, resources>>

EntityFname(e) == _fname_with_id_name(e.id, Or(e.name, S_entity), S_entity)

\* the try block of fetch_software_catalog: the iterator yields k of the n
\* entities and then ends, raises, or raises a TypeError
fetch_software_catalog ==
  /\ pc = "software_catalog"
  /\ calls' = Append(calls, Call("list", "catalog_entity_with_pagination", None))
  /\ LET l == remote IN \E k \in 0..l[2] :
       /\ writes' = writes \o WriteAll(SubSeq(RemoteList(l), 1, k), "software_catalog", EntityFname)
       /\ total' = k
       /\ \/ /\ k = l[2]
             /\ log' = Append(log, Line("Software Catalog entities exported", <<Str(k)>>))
             /\ pc' = "dispatch"
          \/ /\ Crash
             /\ log' = log
          \/ /\ pc' = "software_catalog_fallback"
             /\ log' = log
  /\ Frame
  /\ UNCHANGED <<total_users, items, ix, resources>>

\* the except TypeError branch of fetch_software_catalog
fetch_software_catalog_fallback ==
  /\ pc = "software_catalog_fallback"
  /\ calls' = Append(calls, Call("list", "catalog_entity", None))
  /\ \/ /\ Crash
        /\ UNCHANGED <<total, writes, log>>
     \/ LET l == remote IN
          /\ writes' = writes \o WriteAll(RemoteList(l), "software_catalog", EntityFname)
          /\ total' = total + l[2]
          /\ log' = Append(log, Line("Software Catalog entities exported", <<Str(total')>>))
          /\ pc' = "dispatch"
  /\ Frame
  /\ UNCHANGED <<total_users, items, ix, resources>>

(* ----------------------- restriction policies -------------------------- *)
rp_page_size == 1000

Resource(rtype, rid, label) == [rtype |-> rtype, rid |-> rid, label |-> label]

\* the (resource_type, id, label) tuples appended for the listed objects
\* that have an id
Collect(list, rtype, default_label) ==
  LET with_id == SelectSeq(list, LAMBDA m : m.id # None) IN
  [k \in 1..Len(with_id) |->
     Resource(rtype, with_id[k].id, Or(with_id[k].name, default_label))]

RpFrame == UNCHANGED <<inputs, root_dir, root_made, wanted, ran, key_ix, cur,
                       teams_cache, total_users, items, ix, writes>>

\* the call of fetch_teams inside fetch_restriction_policies
RpCallTeams ==
  /\ pc' = "fetch_teams" /\ caller' = "restriction_policies"
  /\ page' = 0 /\ total' = 0 /\ out' = <<>>

\* "# Dashboards" block
rp_dashboards ==
  /\ pc = "restriction_policies"
  /\ calls' = Append(calls, Call("list", "dashboards", None))
  /\ pc' = "rp_monitors"
  /\ \/ /\ log' = Append(log, Line("RestrictionPolicies: skipping dashboards", <<>>))
        /\ UNCHANGED <<resources>>
     \/ LET l == remote IN
          /\ resources' = resources \o Collect(RemoteList(l), S_dashboard, S_dashboard)
          /\ log' = log
  /\ RpFrame
  /\ UNCHANGED <<caller, page, total, out>>

\* "# Monitors" block: one list call, page 0 of rp_page_size
rp_monitors ==
  /\ pc = "rp_monitors"
  /\ calls' = Append(calls, Call("list", "monitors", Str(0)))
  /\ pc' = "rp_notebooks"
  /\ \/ /\ log' = Append(log, Line("RestrictionPolicies: skipping monitors", <<>>))
        /\ UNCHANGED <<resources>>
     \/ LET l == remote IN
          /\ resources' = resources \o Collect(PageOf(MonitorList(l), 0, rp_page_size), S_monitor, S_monitor)
          /\ log' = log
  /\ RpFrame
  /\ UNCHANGED <<caller, page, total, out>>

\* "# Notebooks" block
rp_notebooks ==
  /\ pc = "rp_notebooks"
  /\ calls' = Append(calls, Call("list", "notebooks", None))
  /\ pc' = "rp_slos"
  /\ \/ /\ log' = Append(log, Line("RestrictionPolicies: skipping notebooks", <<>>))
        /\ UNCHANGED <<resources>>
     \/ LET l == remote IN
          /\ resources' = resources \o Collect(RemoteList(l), S_notebook, S_notebook)
          /\ log' = log
  /\ RpFrame
  /\ UNCHANGED <<caller, page, total, out>>

\* "# SLOs" block, search_slo
rp_slos ==
  /\ pc = "rp_slos"
  /\ calls' = Append(calls, Call("search", "slo", None))
  /\ \/ /\ log' = Append(log, Line("RestrictionPolicies: skipping slos", <<>>))
        /\ RpCallTeams
        /\ UNCHANGED <<resources>>
     \/ \* AttributeError: fall back to list_slos
        /\ pc' = "rp_slos_fallback"
        /\ UNCHANGED <<resources, log, caller, page, total, out>>
     \/ LET l == remote IN
          /\ resources' = resources \o Collect(RemoteList(l), S_slo, S_slo)
          /\ RpCallTeams
          /\ log' = log
  /\ RpFrame

\* "# SLOs" block, the except AttributeError branch
rp_slos_fallback ==
  /\ pc = "rp_slos_fallback"
  /\ calls' = Append(calls, Call("list", "slos", None))
  /\ RpCallTeams
  /\ \/ /\ log' = Append(log, Line("RestrictionPolicies: skipping slos", <<>>))
        /\ UNCHANGED <<resources>>
     \/ LET l == remote IN
          /\ resources' = resources \o Collect(RemoteList(l), S_slo, S_slo)
          /\ log' = log
  /\ RpFrame

RoutingRulesRid(team) == S_rid_prefix \o team.id

RoutingRulesPolicyFname(team) ==
  _fname_with_id_name(RoutingRulesRid(team), team.name \o S_routing_rules, S_oncall_rr)

\* one turn of the "for team_id, team_name in teams" loop of
\* fetch_restriction_policies (two calls in one try), or the end of the loop
rp_team ==
  /\ pc = "rp_team"
  /\ IF ix > Len(items)
     THEN /\ pc' = "rp_lookup"
          /\ ix' = 1
          /\ total' = 0
          /\ UNCHANGED <<calls, writes>>
     ELSE LET team == items[ix]
              rr == Call("get", "on_call_team_routing_rules", team.id)
              pol == Call("get", "restriction_policy", RoutingRulesRid(team))
          IN /\ ix' = ix + 1
             /\ UNCHANGED <<pc, total>>
             /\ \/ /\ calls' = Append(calls, rr)
                   /\ writes' = writes
                \/ /\ calls' = calls \o <<rr, pol>>
                   /\ writes' = writes
                \/ /\ calls' = calls \o <<rr, pol>>
                   /\ writes' = Append(writes, Write("restriction_policies",
                                  RoutingRulesPolicyFname(team), RoutingRulesRid(team), 0))
  /\ UNCHANGED <<inputs, root_dir, root_made, wanted, ran, key_ix, cur,
                 teams_cache, caller, page, total_users, out, items, resources, log>>

ResId(r) == r.rtype \o S_colon \o r.rid

PolicyFname(r) == _fname_with_id_name(ResId(r), r.label, r.rtype)

\* a policy file stored in the directory of the resource it belongs to
PolicyWrite_BesideResource(r) ==
  Write(IF r.rtype = S_dashboard THEN "dashboards"
        ELSE IF r.rtype = S_monitor THEN "monitors"
        ELSE IF r.rtype = S_notebook THEN "notebooks" ELSE "slos",
        PolicyFname(r), ResId(r), 0)

PolicyWrite(r) == Write("restriction_policies", PolicyFname(r), ResId(r), 0)

\* a call that writes the policy back
update_restriction_policy(res_id) == Call("update", "restriction_policy", res_id)

\* rapi.get_restriction_policy(res_id)
get_restriction_policy(res_id) == Call("get", "restriction_policy", res_id)

\* a lookup loop without its try/except: the failure leaves the fetcher
LookupFailed_Raises == Crash /\ log' = log

\* the outcome of a failed get_restriction_policy in the lookup loop:
\* "except Exception: continue" prints nothing
LookupFailed == pc' = pc /\ log' = log

\* one turn of the "for rtype, rid, label in resources" loop, or its end
rp_lookup ==
  /\ pc = "rp_lookup"
  /\ IF ix > Len(resources)
     THEN /\ pc' = "dispatch"
          /\ log' = Append(log, Line("Restriction Policies exported", <<Str(total)>>))
          /\ UNCHANGED <<ix, total, calls, writes>>
     ELSE LET r == resources[ix] IN
          /\ calls' = Append(calls, get_restriction_policy(ResId(r)))
          /\ ix' = ix + 1
          /\ \/ /\ writes' = Append(writes, PolicyWrite(r))
                /\ total' = total + 1
                /\ UNCHANGED <<pc, log>>
             \/ /\ LookupFailed
                /\ UNCHANGED <<total, writes>>
  /\ UNCHANGED <<inputs, root_dir, root_made, wanted, ran, key_ix, cur,
                 teams_cache, caller, page, total_users, out, items, resources>>

Next ==
  \/ main \/ dispatch
  \/ fetch_monitors \/ fetch_roles \/ fetch_users \/ fetch_teams
  \/ fetch_dashboards \/ get_dashboard
  \/ fetch_notebooks \/ fetch_notebooks_retry \/ get_notebook
  \/ on_call_routing_rules \/ on_call_users
  \/ fetch_tags
  \/ fetch_slos \/ fetch_slos_fallback
  \/ fetch_software_catalog \/ fetch_software_catalog_fallback
  \/ rp_dashboards \/ rp_monitors \/ rp_notebooks \/ rp_slos \/ rp_slos_fallback
  \/ rp_team \/ rp_lookup

Spec == Init /\ [][Next]_vars

(* -------------------- the pagination specification -------------------- *)
\* Runs of one paginated fetcher against a remote that holds up to
\* MaxPagedItems items, several pages of page_size.
PagedTokens ==
  { <<"M", "o", "n", "i", "t", "o", "r", "s">>,
    <<"r", "o", "l", "e", "s">>,
    <<"u", "s", "e", "r", "s">>,
    <<" ", "T", "e", "a", "m", "s", " ">> }

InitPage ==
  /\ argv \in {<<DefaultOrg, a>> : a \in PagedTokens}
  /\ env = [file |-> TRUE, api |-> TRUE, app |-> TRUE]
  /\ remote \in {<<0, n, 0>> : n \in 0..MaxPagedItems}
  /\ InitRun

NextPage ==
  \/ main \/ dispatch
  \/ fetch_monitors \/ fetch_roles \/ fetch_users \/ fetch_teams

SpecPage == InitPage /\ [][NextPage]_vars

\* a fetcher that has been called keeps executing until it returns or raises
SpecPageFair ==
  SpecPage /\ WF_vars(fetch_monitors \/ fetch_roles \/ fetch_users \/ fetch_teams)

(* --------------- the monitors-and-policies specification --------------- *)
\* Runs of "Monitors,restriction policies" against an organization that
\* holds monitors only, up to MaxMonitors of them: more than the one page of
\* rp_page_size that fetch_restriction_policies asks for.
MonitorCounts == {0, 1, rp_page_size, MaxMonitors}

InitRp ==
  /\ argv = <<DefaultOrg, Join(<<S_Monitors, RpToken>>)>>
  /\ env = [file |-> TRUE, api |-> TRUE, app |-> TRUE]
  /\ remote \in {<<0, 0, m>> : m \in MonitorCounts}
  /\ InitRun

\* in these runs every resource looked up has a policy: the turns of the
\* lookup loop are those in which get_restriction_policy returns
rp_lookup_found == rp_lookup /\ (pc' = "dispatch" \/ total' = total + 1)

NextRp ==
  \/ main \/ dispatch \/ fetch_monitors
  \/ rp_dashboards \/ rp_monitors \/ rp_notebooks \/ rp_slos \/ rp_slos_fallback
  \/ rp_team \/ fetch_teams \/ rp_lookup_found

SpecRp == InitRp /\ [][NextRp]_vars

(* ============================ properties ============================== *)
Range(q) == {q[k] : k \in 1..Len(q)}
IsPrefix(a, b) == Len(a) <= Len(b) /\ SubSeq(b, 1, Len(a)) = a

(* ------------------------------- C1 ----------------------------------- *)
\* the env file is missing, or a key is unset after loading it
BadEnv == Len(argv) >= 1 /\ (~env.file \/ ~env.api \/ ~env.app)

\* C1: with the env file missing, or DD_API_KEY or DD_APP_KEY unset after
\* loading it, the run makes no remote call, creates no directory and writes
\* no file, and once main has acted it has exited with a non-zero status,
\* whatever resources were requested.
C1_AbortsBeforeAnyEffect ==
  BadEnv =>
    /\ calls = <<>> /\ writes = <<>>
    /\ ~root_made /\ root_dir = None
    /\ pc \in {"main", "exit_env"}
    /\ pc # "main" => ExitCode(pc) # 0

\* a run with resources requested and the env file present but without
\* DD_APP_KEY has exited
C1_Witness ==
  /\ pc = "exit_env"
  /\ Len(argv) = 2 /\ parse_resources_arg(argv[2]) # <<>>
  /\ env.file /\ env.api /\ ~env.app

(* ------------------------------- C2 ----------------------------------- *)
\* the ids of the collected resources
RpResIds == {ResId(resources[k]) : k \in 1..Len(resources)}
\* the policy lookups made for collected resources, and the files written
\* for them
LookupCalls ==
  SelectSeq(calls, LAMBDA c : c.what = "restriction_policy" /\ c.arg \in RpResIds)
PolicyWrites ==
  SelectSeq(writes, LAMBDA w : w.subdir = "restriction_policies" /\ w.id \in RpResIds)
LookupsOf(n) == [k \in 1..n |-> Call("get", "restriction_policy", ResId(resources[k]))]
\* fetch_restriction_policies has returned to main's loop
RpReturned == cur = "restriction_policies" /\ pc = "dispatch"
PositionOf(key) == CHOOSE k \in 1..Len(wanted) : wanted[k] = key

\* C2: no outcome of a policy lookup aborts the run.  While main runs
\* fetch_restriction_policies the run never crashes; in the lookup loop the
\* lookups made so far are exactly one per collected resource, in order,
\* whatever the earlier outcomes; when the fetcher has returned every
\* collected resource has been looked up once and the total printed is the
\* number of lookups that succeeded; and a finished run has given the type
\* requested after restriction_policies its turn.
C2_LookupFailuresNeverAbort ==
  /\ cur = "restriction_policies" => pc # "crashed"
  /\ pc = "rp_lookup" => LookupCalls = LookupsOf(ix - 1)
  /\ RpReturned =>
       /\ LookupCalls = LookupsOf(Len(resources))
       /\ log[Len(log)] = Line("Restriction Policies exported", <<Str(Len(PolicyWrites))>>)
  /\ (pc \in Terminal /\ "restriction_policies" \in Range(ran)) =>
       LET k == PositionOf("restriction_policies") IN
       /\ key_ix > Min(k + 1, Len(wanted))
       /\ (k < Len(wanted) /\ wanted[k + 1] # "teams") => wanted[k + 1] \in Range(ran)

\* fetch_restriction_policies has returned after three lookups of which the
\* first two failed and the last succeeded, and another type follows
C2_Witness ==
  /\ RpReturned
  /\ Len(resources) = 3
  /\ Len(PolicyWrites) = 1
  /\ PolicyWrites[1].id = ResId(resources[3])
  /\ key_ix <= Len(wanted)

(* ------------------------------- C3 ----------------------------------- *)
\* the lines printed for a failed call made for one resource
FailureLines ==
  SelectSeq(log, LAMBDA l : l.msg \in {"On-Call routing rules failed for team",
                                       "On-Call users failed for team",
                                       "Policy lookup failed", "Detail fetch failed"})

\* C3 (as claimed): a failed call for one resource never ends the run, and
\* every policy lookup that wrote no file left a line in the log.
C3_PerResourceFailuresSkipped ==
  /\ pc = "crashed" => calls[Len(calls)].verb # "get"
  /\ RpReturned => Len(LookupCalls) <= Len(PolicyWrites) + Len(FailureLines)

(* ------------------------------- C4 ----------------------------------- *)
SlugChars == LowerAlnum \cup {"-"}
IsSlug(t) == t # <<>> /\ \A k \in 1..Len(t) : t[k] \in SlugChars
HasPrefix(f, pre) == Len(f) >= Len(pre) /\ SubSeq(f, 1, Len(pre)) = pre
HasSuffix(f, suf) == Len(f) >= Len(suf) /\ SubSeq(f, Len(f) - Len(suf) + 1, Len(f)) = suf
\* f is <id>_<slug>.json with a non-empty slug
IdSlugJson(f, id) ==
  /\ HasPrefix(f, id \o S_us)
  /\ HasSuffix(f, S_json)
  /\ Len(f) > Len(id) + 1 + Len(S_json)
  /\ IsSlug(SubSeq(f, Len(id) + 2, Len(f) - Len(S_json)))
\* f is <pre><id>_<slug>.json
PrefixedIdSlugJson(f, pre, id) ==
  HasPrefix(f, pre) /\ IdSlugJson(SubSeq(f, Len(pre) + 1, Len(f)), id)
IdOrUnknown(id) == IF id = None THEN S_unknown ELSE id

\* C4 (as claimed): every file written lies under the output root in the
\* directory of the fetcher that writes it and is named <id>_<slug>.json by
\* the id of the exported resource and a non-empty slug, tags and on_call
\* included.  (Read generously: the org label lower-cased as main does,
\* "unknown" for a resource without id.)
C4_EveryFileIdSlug ==
  \A k \in 1..Len(writes) :
    /\ root_dir = OrgDir(Lower(argv[1]))
    /\ writes[k].subdir = writes[k].by \/ writes[k].subdir = "teams"
    /\ IdSlugJson(writes[k].fname, IdOrUnknown(writes[k].id))

\* C4 (amended): every file written lies under
\* <base>/<site>_org_<org_label lower-cased>/<subdir>/.  In tags/ it is
\* all_host_tags_<timestamp>.json; in on_call/ it is
\* team-routing-rules_<team id>_<slug>.json or
\* team-oncall-users_<team id>_<slug>.json; in restriction_policies/ it is
\* <resource id>_<slug>.json; in every other directory it is <id>_<slug>.json
\* with "unknown" for the id of a resource that has none.  Slugs are
\* non-empty.  The directory is the type of the fetcher main is running,
\* except that team files are also written while on_call or
\* restriction_policies runs.
C4_FileNames ==
  \A k \in 1..Len(writes) :
    LET w == writes[k] IN
    /\ root_dir = OrgDir(Lower(argv[1]))
    /\ CASE w.subdir = "tags" ->
              /\ w.by = "tags"
              /\ w.fname = S_all_host_tags \o TIMESTAMP \o S_json
         [] w.subdir = "on_call" ->
              /\ w.by = "on_call"
              /\ w.id # None
              /\ \/ PrefixedIdSlugJson(w.fname, S_team_routing_rules, w.id)
                 \/ PrefixedIdSlugJson(w.fname, S_team_oncall_users, w.id)
         [] w.subdir = "restriction_policies" ->
              /\ w.by = "restriction_policies"
              /\ w.id # None
              /\ IdSlugJson(w.fname, w.id)
         [] w.subdir = "teams" ->
              /\ w.by \in {"teams", "on_call", "restriction_policies"}
              /\ IdSlugJson(w.fname, IdOrUnknown(w.id))
         [] OTHER ->
              /\ w.subdir = w.by
              /\ w.subdir \in {"monitors", "dashboards", "notebooks", "roles",
                               "users", "slos", "software_catalog"}
              /\ IdSlugJson(w.fname, IdOrUnknown(w.id))

\* a finished run that wrote a tags snapshot, an on-call file, and a team
\* file for a team without id and with a name that slugifies to nothing
C4_Witness ==
  /\ pc = "done"
  /\ \E k \in 1..Len(writes) : writes[k].subdir = "tags"
  /\ \E k \in 1..Len(writes) : writes[k].subdir = "on_call"
  /\ \E k \in 1..Len(writes) :
       /\ writes[k].subdir = "teams"
       /\ writes[k].fname = S_unknown \o S_us \o S_team \o S_json

(* ------------------------------- C5 ----------------------------------- *)
\* the requests for the first page of the team list
TeamListings == {k \in 1..Len(calls) : calls[k] = Call("list", "teams", Str(0))}

\* C5 (as claimed): with on_call requested (and no other fetcher that lists
\* teams) the team list is requested once in the run, and no team file is
\* written while main runs fetch_on_call.
C5_OnCallReusesTeams ==
  ("on_call" \in Range(wanted) /\ "restriction_policies" \notin Range(wanted)) =>
    /\ Cardinality(TeamListings) <= 1
    /\ \A k \in 1..Len(writes) : writes[k].by = "on_call" => writes[k].subdir # "teams"

(* ------------------------------- C6 ----------------------------------- *)
\* C6: every remote operation invoked is a list, search or get operation.
C6_ReadOnly ==
  \A k \in 1..Len(calls) : calls[k].verb \in {"list", "search", "get"}

\* a finished run that made operations of all three kinds, policy lookups
\* among them
C6_Witness ==
  /\ pc = "done"
  /\ {calls[k].verb : k \in 1..Len(calls)} = {"list", "search", "get"}
  /\ \E k \in 1..Len(calls) : calls[k].what = "restriction_policy"

(* ------------------------------- C7 ----------------------------------- *)
Wanted == Range(wanted)

\* C7 (as claimed): every file lies in the directory of a requested type,
\* and in the directory of the type whose fetcher main is running.
C7_OnlyRequestedDirs ==
  \A k \in 1..Len(writes) :
    /\ writes[k].subdir \in Wanted
    /\ writes[k].subdir = writes[k].by

\* C7 (amended): every file lies in the directory of a requested type or,
\* when on_call or restriction_policies is requested, in teams/; and it
\* lies in the directory of the type whose fetcher main is running, except
\* for the team files fetch_teams writes when fetch_on_call or
\* fetch_restriction_policies calls it.
C7_RequestedDirsOrTeams ==
  \A k \in 1..Len(writes) :
    LET w == writes[k] IN
    /\ \/ w.subdir \in Wanted
       \/ w.subdir = "teams" /\ Wanted \cap {"on_call", "restriction_policies"} # {}
    /\ \/ w.subdir = w.by
       \/ w.subdir = "teams" /\ w.by \in {"on_call", "restriction_policies"}

\* a finished run of restriction_policies alone that wrote a team file and a
\* policy file
C7_Witness ==
  /\ pc = "done"
  /\ wanted = <<"restriction_policies">>
  /\ \E k \in 1..Len(writes) :
       writes[k].subdir = "teams" /\ writes[k].by = "restriction_policies"
  /\ \E k \in 1..Len(writes) : writes[k].subdir = "restriction_policies"

(* ----------------------------- C8, C9 --------------------------------- *)
\* the number of items the remote holds
N == remote[2]
ExportedLine == {"Monitors exported", "Roles exported", "Users exported", "Teams exported"}

\* C8: against a remote that serves consecutive slices of a fixed list of N
\* items, a paginated fetcher requests pages 0, 1, 2, ... in this order, and
\* when the run has finished it has written item 1, ..., item N, each once,
\* and has printed N as the total.
C8_EachItemOnce ==
  /\ \A k \in 1..Len(calls) : calls[k].verb = "list" /\ calls[k].arg = Str(k - 1)
  /\ \A k \in 1..Len(writes) : writes[k].item = k
  /\ Len(writes) <= N
  /\ pc = "done" =>
       /\ Len(writes) = N
       /\ \E k \in 1..Len(log) : log[k].msg \in ExportedLine /\ log[k].args = <<Str(N)>>

\* a finished run over exactly two full pages: three requests, 200 files
C8_Witness ==
  /\ pc = "done"
  /\ N = 2 * page_size
  /\ Len(calls) = 3
  /\ Len(writes) = 2 * page_size

\* a paginated fetcher is running
Paginating == pc \in {"monitors", "roles", "users", "fetch_teams"}

\* C9: a paginated fetcher that has been called returns (or raises), and a
\* run that ends normally has made exactly floor(N / page_size) + 1 list
\* requests: the fetcher stopped at the first page shorter than page_size.
C9_Terminates ==
  /\ Paginating ~> ~Paginating
  /\ [](pc = "done" => Len(calls) = (N \div page_size) + 1)

\* a finished run over one full page and a partial one: two requests
C9_Witness ==
  /\ pc = "done"
  /\ N = page_size + 1
  /\ Len(calls) = 2

(* ------------------------------- C10 ---------------------------------- *)
\* the canonical types the argument names, with repetitions, in order
NamedIn(arg) ==
  LET raws == Split(arg, ",")
      keys == [k \in 1..Len(raws) |-> AliasGet(Lower(Strip(raws[k], Whitespace)))]
  IN SelectSeq(keys, LAMBDA key : key # "")
Named == NamedIn(IF Len(argv) >= 2 THEN argv[2] ELSE S_Monitors)
\* the types of a list, each once, in the order of their first appearance
FirstAppearanceOf(named) ==
  LET types == Range(named)
      first == [t \in types |-> CHOOSE k \in 1..Len(named) :
                                  named[k] = t /\ \A j \in 1..(k - 1) : named[j] # t]
  IN [k \in 1..Cardinality(types) |->
        CHOOSE t \in types : Cardinality({u \in types : first[u] < first[t]}) = k - 1]
\* the same with teams moved to the front, and put there when on_call is named
TeamsFirstOf(order) ==
  IF Range(order) \cap {"teams", "on_call"} = {} THEN order
  ELSE <<"teams">> \o SelectSeq(order, LAMBDA t : t # "teams")
\* the order of first appearance for every argument a run may be given
FirstAppearanceTable ==
  [arg \in ResourceArgs \cup {S_Monitors} |-> FirstAppearanceOf(NamedIn(arg))]
FirstAppearance ==
  FirstAppearanceTable[IF Len(argv) >= 2 THEN argv[2] ELSE S_Monitors]
TeamsFirst == TeamsFirstOf(FirstAppearance)

\* C10 (as claimed): main calls the fetchers of the named types in the order
\* of their first appearance, each once: at any time the fetchers called so
\* far are a prefix of that order, and a finished run has called them all.
C10_FirstAppearanceOrder ==
  LET order == FirstAppearance IN
  /\ IsPrefix(ran, order)
  /\ pc = "done" => ran = order

\* C10 (amended): main first calls fetch_teams if teams or on_call is named,
\* wherever it stands in the list, and then the fetchers of the other named
\* types in the order of their first appearance, each once; aliases and
\* duplicates count once and unrecognised names are ignored.
C10_TeamsFirstThenOrder ==
  LET order == TeamsFirst IN
  /\ IsPrefix(ran, order)
  /\ pc = "done" => ran = order

\* a finished run of "Monitors, Teams ,monitor": teams, then monitors once
C10_Witness ==
  /\ pc = "done"
  /\ Named = <<"monitors", "teams", "monitors">>
  /\ ran = <<"teams", "monitors">>

(* ------------------------------- C11 ---------------------------------- *)
\* the ids of the monitors fetch_monitors has written a file for
ExportedMonitorIds ==
  {writes[k].id : k \in {j \in 1..Len(writes) :
                          writes[j].subdir = "monitors" /\ writes[j].id # None}}
\* the restriction-policy id of a monitor
MonitorResId(id) == S_monitor \o S_colon \o id
\* the monitor policies looked up so far
MonitorLookups ==
  {calls[k].arg : k \in {j \in 1..Len(calls) :
                          /\ calls[j].verb = "get"
                          /\ calls[j].what = "restriction_policy"
                          /\ HasPrefix(calls[j].arg, S_monitor \o S_colon)}}
\* the resources the lookup loop has still to look up
PendingLookups == {ResId(resources[k]) : k \in ix..Len(resources)}
\* fetch_monitors has returned and fetch_restriction_policies has listed
\* the monitors without failure
MonitorsExportedAndListed ==
  /\ \E k \in 1..Len(log) : log[k].msg = "Monitors exported"
  /\ cur = "restriction_policies"
  /\ pc \in {"rp_lookup", "dispatch", "done"}
  /\ \A k \in 1..Len(log) : log[k].msg # "RestrictionPolicies: skipping monitors"

\* C11 (as claimed): fetch_restriction_policies looks up the policy of every
\* monitor fetch_monitors exports with an id, however many monitors there
\* are: while the lookup loop runs every exported monitor id is looked up or
\* still to be looked up, and once the fetcher has returned the monitor ids
\* looked up are the monitor ids exported.
C11_EveryExportedMonitorLookedUp ==
  MonitorsExportedAndListed =>
    LET exported == {MonitorResId(id) : id \in ExportedMonitorIds} IN
    /\ pc = "rp_lookup" => exported \subseteq (MonitorLookups \cup PendingLookups)
    /\ pc # "rp_lookup" => MonitorLookups = exported

====
